---- MODULE Spec2Model ----
(***************************************************************************)
(* Generic repository (shared_utils/repository/sqlalchemy.py) and the      *)
(* page-number paginator (shared_utils/pagination/page_number.py).         *)
(*                                                                         *)
(* The table of the managed entity is a sequence of rows in store order.   *)
(* Every repository method is one action; its result is recorded in        *)
(* op/arg/ret/exc/committed so that properties can speak about it.         *)
(*                                                                         *)
(* proc holds the locals of the call in progress, for the calls that are   *)
(* modelled step by step, and of the last call otherwise.                  *)
(*                                                                         *)
(* Optional values (Optional[int], an absent keyword argument, an absent   *)
(* filter) are sets with at most one element: {} is None / absent.         *)
(***************************************************************************)
EXTENDS Integers, Sequences, FiniteSets, TLC

VARIABLES store, nextId, op, arg, ret, exc, committed, proc

vars == <<store, nextId, op, arg, ret, exc, committed, proc>>

----------------------------------------------------------------------------
(* Bounds of the model *)

MaxRows == 2
MaxPage == 3
MaxSize == 10
MaxTotal == 25

----------------------------------------------------------------------------
(* Values *)

Names == {"", "a"}
Qtys == {0, 1}

Opt(S) == {{}} \cup {{x} : x \in S}

Min(a, b) == IF a < b THEN a ELSE b
Max(a, b) == IF a > b THEN a ELSE b

NoneVal == [kind |-> "None"]
EntityVal(row) == [kind |-> "Entity", row |-> row]
RowsVal(rows) == [kind |-> "Rows", rows |-> rows]

(* No call in progress, no locals kept. *)
NoLocals == [pc |-> "idle"]

NoFilters == [id |-> {}, name |-> {}, qty |-> {}]

(* Column defaults the store fills in on refresh for omitted fields. *)
Defaults == [name |-> "", qty |-> 0]

(* Python truthiness of a keyword value: "" and 0 are falsy. *)
Truthy(field, value) ==
    CASE field = "name" -> value # ""
      [] field = "qty" -> value # 0
      [] OTHER -> value # 0

(* hasattr(obj, field): None has no entity attribute; an entity has its columns. *)
HasAttr(obj, field) ==
    obj.kind = "Entity" /\ field \in {"id", "name", "qty"}

----------------------------------------------------------------------------
(* Query capability: select, filter_by, offset, limit *)

Matches(row, filters) ==
    \A f \in {"id", "name", "qty"} : filters[f] = {} \/ row[f] \in filters[f]

FilterRows(rows, filters) == SelectSeq(rows, LAMBDA r : Matches(r, filters))

get_filter_query(filters) ==
    [filters |-> filters, offset |-> {}, limit |-> {}]

Offset(rows, n) == SubSeq(rows, n + 1, Len(rows))
Limit(rows, n) == SubSeq(rows, 1, Min(n, Len(rows)))

(* db.execute(query).scalars().all() *)
execute_filter_query(db, query) ==
    LET matched == FilterRows(db, query.filters)
        skipped == IF query.offset = {} THEN matched
                   ELSE Offset(matched, CHOOSE n \in query.offset : TRUE)
    IN  IF query.limit = {} THEN skipped
        ELSE Limit(skipped, CHOOSE n \in query.limit : TRUE)

(* select(count()).select_from(query.subquery()) *)
count_filter_query(db, query) == Len(execute_filter_query(db, query))

----------------------------------------------------------------------------
(* Pagination *)

ValidParams(page, size) == page >= 1 /\ size >= 1 /\ size <= 101

(* PageNumberPaginationQueryParams(page=..., size=...): a keyword is absent  *)
(* (<<>>) or given (<<v>>), and a given value is None ({}) or an integer    *)
(* ({n}).  Both fields are Optional[int]: None passes, the range is checked *)
(* on integers only; an absent keyword takes the default 1 or 10.           *)
PageNumberPaginationQueryParams(page, size) ==
    LET p == IF page = <<>> THEN {1} ELSE page[1]
        z == IF size = <<>> THEN {10} ELSE size[1]
        page_ok == p = {} \/ \A n \in p : n >= 1
        size_ok == z = {} \/ \A n \in z : n >= 1 /\ n <= 101
    IN  IF page_ok /\ size_ok
        THEN [exc |-> "none", ret |-> [kind |-> "Params", page |-> p, size |-> z]]
        ELSE [exc |-> "ValidationError", ret |-> NoneVal]

paginate_query_without_offset(query, page, size) ==
    [query EXCEPT !.offset = {0}, !.limit = {size}]

paginate_query_skips_a_page(query, page, size) ==
    [query EXCEPT !.offset = {page * size}, !.limit = {size}]

paginate_query(query, page, size) ==
    [query EXCEPT !.offset = {(page - 1) * size}, !.limit = {size}]

(* paginate_query on a validated instance: arithmetic on None is a TypeError. *)
paginate_query_of(query, query_params) ==
    IF query_params.page = {} \/ query_params.size = {}
    THEN [exc |-> "TypeError", ret |-> NoneVal]
    ELSE [exc |-> "none",
          ret |-> [kind |-> "Query",
                   query |-> paginate_query(query,
                                            CHOOSE n \in query_params.page : TRUE,
                                            CHOOSE n \in query_params.size : TRUE)]]

ResponseFields == {"total_count", "next_page", "previous_page", "results"}

(* Construction of the response model: every declared field must be given, *)
(* keywords that are no field are ignored.                                 *)
PageNumberPaginationResponse(kw) ==
    IF ResponseFields \subseteq DOMAIN kw
    THEN [exc |-> "none",
          ret |-> [kind |-> "Page",
                   total_count |-> kw.total_count,
                   next_page |-> kw.next_page,
                   previous_page |-> kw.previous_page,
                   results |-> kw.results]]
    ELSE [exc |-> "ValidationError", ret |-> NoneVal]

(* response_schema.model_validate(item): the public record of an entity. *)
model_validate(item) == [id |-> item.id, name |-> item.name]

paginate_response_page_fill(results, total_count, page, size) ==
    IF Len(results) = 0
    THEN PageNumberPaginationResponse(
             [count |-> 0, next_page |-> {}, previous_page |-> {}, results |-> <<>>])
    ELSE PageNumberPaginationResponse(
             [total_count |-> total_count,
              next_page |-> IF Len(results) = size THEN {page + 1} ELSE {},
              previous_page |-> IF page > 1 THEN {page - 1} ELSE {},
              results |-> [i \in 1..Len(results) |-> model_validate(results[i])]])

paginate_response_floor_pages(results, total_count, page, size) ==
    IF Len(results) = 0
    THEN PageNumberPaginationResponse(
             [count |-> 0, next_page |-> {}, previous_page |-> {}, results |-> <<>>])
    ELSE PageNumberPaginationResponse(
             [total_count |-> total_count,
              next_page |-> IF page < total_count \div size THEN {page + 1} ELSE {},
              previous_page |-> IF page > 1 THEN {page - 1} ELSE {},
              results |-> [i \in 1..Len(results) |-> model_validate(results[i])]])

paginate_response(results, total_count, page, size) ==
    IF Len(results) = 0
    THEN PageNumberPaginationResponse(
             [count |-> 0, next_page |-> {}, previous_page |-> {}, results |-> <<>>])
    ELSE LET page_size == size
             current_page == page
             total_pages == IF page_size > 0
                            THEN (total_count + page_size - 1) \div page_size
                            ELSE 0
             previous_page == IF current_page > 1 THEN {current_page - 1} ELSE {}
             next_page == IF current_page < total_pages THEN {current_page + 1} ELSE {}
             validated_results ==
                 [i \in 1..Len(results) |-> model_validate(results[i])]
         IN  PageNumberPaginationResponse(
                 [total_count |-> total_count,
                  next_page |-> next_page,
                  previous_page |-> previous_page,
                  results |-> validated_results])

paginator_arguments_counts_the_page(db, filters, page, size) ==
    LET filter_query == get_filter_query(filters)
        paginated_query == paginate_query(filter_query, page, size)
        total_query_count == count_filter_query(db, paginated_query)
        results == execute_filter_query(db, paginated_query)
    IN  [results |-> results, total_count |-> total_query_count]

(* What get_paginated hands to paginate_response: the count of the filter  *)
(* query and the rows of the paginated query.                              *)
paginator_arguments(db, filters, page, size) ==
    LET filter_query == get_filter_query(filters)
        total_query_count == count_filter_query(db, filter_query)
        paginated_query == paginate_query(filter_query, page, size)
        results == execute_filter_query(db, paginated_query)
    IN  [results |-> results, total_count |-> total_query_count]

get_paginated(db, filters, page, size) ==
    LET passed == paginator_arguments(db, filters, page, size)
    IN  paginate_response(passed.results, passed.total_count, page, size)

----------------------------------------------------------------------------
(* Repository methods.  Each returns the outcome of one call:              *)
(* the table afterwards, the value returned, the exception raised ("none"  *)
(* when the call returns) and whether the session committed.               *)

Outcome(db, r, e, c) == [store |-> db, ret |-> r, exc |-> e, committed |-> c]

create(db, id, kwargs) ==
    LET instance == [id |-> id,
                     name |-> IF kwargs.name = {} THEN Defaults.name
                              ELSE CHOOSE v \in kwargs.name : TRUE,
                     qty |-> IF kwargs.qty = {} THEN Defaults.qty
                             ELSE CHOOSE v \in kwargs.qty : TRUE]
    IN  Outcome(Append(db, instance), EntityVal(instance), "none", TRUE)

(* result.scalars().all() *)
get_all(db) ==
    Outcome(db, RowsVal(execute_filter_query(db, get_filter_query(NoFilters))),
            "none", FALSE)

(* A result row that was not unpacked with scalars(): a 1-tuple around the entity. *)
Row(entity) == [cols |-> <<entity>>]

(* result.all() *)
filter_by(db, filters) ==
    LET matched == execute_filter_query(db, get_filter_query(filters))
    IN  Outcome(db, RowsVal([i \in 1..Len(matched) |-> Row(matched[i])]), "none", FALSE)

get_by_returns_first(db, filters) ==
    LET result == execute_filter_query(db, get_filter_query(filters))
    IN  IF Len(result) = 0 THEN Outcome(db, NoneVal, "ObjDoesNotExist", FALSE)
        ELSE Outcome(db, EntityVal(result[1]), "none", FALSE)

get_by_returns_none(db, filters) ==
    LET result == execute_filter_query(db, get_filter_query(filters))
    IN  IF Len(result) > 1 THEN Outcome(db, NoneVal, "MultipleResultsFound", FALSE)
        ELSE IF Len(result) = 0 THEN Outcome(db, NoneVal, "none", FALSE)
        ELSE Outcome(db, EntityVal(result[1]), "none", FALSE)

(* scalar_one_or_none(): more than one row is a store error; none is None. *)
get_by(db, filters) ==
    LET result == execute_filter_query(db, get_filter_query(filters))
    IN  IF Len(result) > 1 THEN Outcome(db, NoneVal, "MultipleResultsFound", FALSE)
        ELSE IF Len(result) = 0 THEN Outcome(db, NoneVal, "ObjDoesNotExist", FALSE)
        ELSE Outcome(db, EntityVal(result[1]), "none", FALSE)

(* The result of get_by is bound to a local and never returned. *)
get_by_id(db, id) ==
    LET result == get_by(db, [NoFilters EXCEPT !.id = {id}])
    IN  IF result.exc # "none" THEN result
        ELSE Outcome(db, NoneVal, "none", FALSE)

(* setattr on the loaded row of the table *)
SetAttr(db, obj, field, value) ==
    [i \in 1..Len(db) |->
        IF db[i].id = obj.row.id THEN [db[i] EXCEPT ![field] = value] ELSE db[i]]

GetAttr(db, obj, field) ==
    LET i == CHOOSE j \in 1..Len(db) : db[j].id = obj.row.id IN db[i][field]

ShouldSet(db, obj, field, new_field_value) ==
    /\ Truthy(field, new_field_value)
    /\ HasAttr(obj, field)
    /\ GetAttr(db, obj, field) # new_field_value

RECURSIVE ApplyKwargs(_, _, _, _)
ApplyKwargs(db, obj, kwargs, fields) ==
    IF fields = {} THEN db
    ELSE LET field == CHOOSE f \in fields : TRUE
             rest == fields \ {field}
         IN  IF kwargs[field] = {} THEN ApplyKwargs(db, obj, kwargs, rest)
             ELSE LET value == CHOOSE v \in kwargs[field] : TRUE
                  IN  IF ShouldSet(db, obj, field, value)
                      THEN ApplyKwargs(SetAttr(db, obj, field, value), obj, kwargs, rest)
                      ELSE ApplyKwargs(db, obj, kwargs, rest)

RECURSIVE ApplyRecognised(_, _, _, _)
ApplyRecognised(db, obj, kwargs, fields) ==
    IF fields = {} THEN db
    ELSE LET field == CHOOSE f \in fields : TRUE
             rest == fields \ {field}
         IN  IF kwargs[field] # {} /\ HasAttr(obj, field)
             THEN ApplyRecognised(
                      SetAttr(db, obj, field, CHOOSE v \in kwargs[field] : TRUE),
                      obj, kwargs, rest)
             ELSE ApplyRecognised(db, obj, kwargs, rest)

update_writes_falsy(db, id, kwargs) ==
    LET loaded == get_by(db, [NoFilters EXCEPT !.id = {id}])
    IN  IF loaded.exc # "none" THEN loaded
        ELSE LET obj == loaded.ret
                 written == ApplyRecognised(db, obj, kwargs, DOMAIN kwargs)
             IN  Outcome(written,
                         EntityVal(written[CHOOSE j \in 1..Len(written) :
                                               written[j].id = obj.row.id]),
                         "none", TRUE)

update(db, id, kwargs) ==
    LET loaded == get_by_id(db, id)
    IN  IF loaded.exc # "none" THEN loaded
        ELSE LET obj == loaded.ret
                 written == ApplyKwargs(db, obj, kwargs, DOMAIN kwargs)
             IN  Outcome(written,
                         IF obj.kind = "None" THEN NoneVal
                         ELSE EntityVal(written[CHOOSE j \in 1..Len(written) :
                                                    written[j].id = obj.row.id]),
                         "none", TRUE)

(* update from its commit on, in a session that loaded obj earlier: the     *)
(* attributes are set on the session's own copy of the row, the commit     *)
(* writes the changed columns to the row with that id, refresh reads the   *)
(* row back.  With obj None nothing is set and the commit is empty.        *)
update_commit(db, obj, kwargs) ==
    IF obj.kind = "None"
    THEN Outcome(ApplyKwargs(db, obj, kwargs, DOMAIN kwargs), NoneVal, "none", TRUE)
    ELSE LET local == ApplyKwargs(<<obj.row>>, obj, kwargs, DOMAIN kwargs)[1]
             dirty == {f \in {"name", "qty"} : local[f] # obj.row[f]}
             written == [i \in 1..Len(db) |->
                            IF db[i].id = obj.row.id
                            THEN [f \in DOMAIN db[i] |->
                                     IF f \in dirty THEN local[f] ELSE db[i][f]]
                            ELSE db[i]]
             refreshed == {i \in 1..Len(written) : written[i].id = obj.row.id}
         IN  Outcome(written,
                     IF refreshed = {} THEN obj
                     ELSE EntityVal(written[CHOOSE i \in refreshed : TRUE]),
                     "none", TRUE)

(* db.delete(obj) of an object that is no mapped instance is a store error. *)
delete(db, id) ==
    LET loaded == get_by_id(db, id)
    IN  IF loaded.exc # "none" THEN loaded
        ELSE LET obj == loaded.ret
             IN  IF obj.kind = "None"
                 THEN Outcome(db, NoneVal, "UnmappedInstanceError", FALSE)
                 ELSE Outcome(SelectSeq(db, LAMBDA r : r.id # obj.row.id),
                              NoneVal, "none", TRUE)

----------------------------------------------------------------------------
(* Inputs *)

Ids == 1..(MaxRows + 1)
CreateKwargs == [name : Opt(Names), qty : Opt(Qtys)]
UpdateKwargs == [name : Opt(Names), qty : Opt(Qtys), bogus : Opt({1})]
LookupFilters == [id : Opt(Ids), name : Opt(Names), qty : {{}}]
PageFilters == [id : {{}}, name : Opt(Names), qty : {{}}]
Pages == 1..MaxPage
Sizes == 1..MaxSize

----------------------------------------------------------------------------
(* Actions *)

Record(name, a, out) ==
    /\ op' = name
    /\ arg' = a
    /\ store' = out.store
    /\ ret' = out.ret
    /\ exc' = out.exc
    /\ committed' = out.committed
    /\ proc' = NoLocals

Create ==
    /\ Len(store) < MaxRows
    /\ \E kwargs \in CreateKwargs :
          Record("create", [kwargs |-> kwargs], create(store, nextId, kwargs))
    /\ nextId' = nextId + 1

GetBy ==
    /\ \E filters \in LookupFilters :
          Record("get_by", [filters |-> filters], get_by(store, filters))
    /\ UNCHANGED nextId

GetById ==
    /\ \E id \in Ids : Record("get_by_id", [id |-> id], get_by_id(store, id))
    /\ UNCHANGED nextId

Update ==
    /\ \E id \in Ids, kwargs \in UpdateKwargs :
          Record("update", [id |-> id, kwargs |-> kwargs], update(store, id, kwargs))
    /\ UNCHANGED nextId

Delete ==
    /\ \E id \in Ids : Record("delete", [id |-> id], delete(store, id))
    /\ UNCHANGED nextId

GetAll ==
    /\ Record("get_all", [none |-> TRUE], get_all(store))
    /\ UNCHANGED nextId

FilterBy ==
    /\ \E filters \in PageFilters :
          Record("filter_by", [filters |-> filters], filter_by(store, filters))
    /\ UNCHANGED nextId

get_paginated_call(filters, page, size) ==
    /\ ValidParams(page, size)
    /\ LET out == get_paginated(store, filters, page, size)
       IN  /\ op' = "get_paginated"
           /\ arg' = [filters |-> filters, page |-> page, size |-> size]
           /\ ret' = out.ret
           /\ exc' = out.exc
    /\ committed' = FALSE
    /\ proc' = [pc |-> "idle",
                total_query_count |->
                    paginator_arguments(store, filters, page, size).total_count]
    /\ UNCHANGED <<store, nextId>>

(* paginate_query on the filter query, then execute_filter_query *)
execute_paginated_call(filters, page, size) ==
    /\ ValidParams(page, size)
    /\ LET query == paginate_query(get_filter_query(filters), page, size)
       IN  Record("execute_paginated",
                  [filters |-> filters, page |-> page, size |-> size],
                  Outcome(store, RowsVal(execute_filter_query(store, query)),
                          "none", FALSE))
    /\ UNCHANGED nextId

GetPaginated ==
    \E filters \in PageFilters, page \in Pages, size \in Sizes :
        get_paginated_call(filters, page, size)

ExecutePaginated ==
    \E filters \in PageFilters, page \in Pages, size \in Sizes :
        execute_paginated_call(filters, page, size)

Init ==
    /\ store = <<>>
    /\ nextId = 1
    /\ op = "init"
    /\ arg = [none |-> TRUE]
    /\ ret = NoneVal
    /\ exc = "none"
    /\ committed = FALSE
    /\ proc = NoLocals

Next ==
    \/ Create
    \/ GetBy
    \/ GetById
    \/ Update
    \/ Delete
    \/ GetAll
    \/ FilterBy

Spec == Init /\ [][Next]_vars

(* A table that already holds n entities, paged through. *)
BulkRows(n) ==
    [i \in 1..n |-> [id |-> i, name |-> IF i % 2 = 1 THEN "a" ELSE "b", qty |-> 1]]

InitPaging ==
    /\ \E n \in 0..MaxTotal : store = BulkRows(n) /\ nextId = n + 1
    /\ op = "init"
    /\ arg = [none |-> TRUE]
    /\ ret = NoneVal
    /\ exc = "none"
    /\ committed = FALSE
    /\ proc = NoLocals

NextPaging ==
    \/ GetPaginated
    \/ ExecutePaginated

PagingSpec == InitPaging /\ [][NextPaging]_vars

----------------------------------------------------------------------------
(* Validation of the pagination parameters, then paginate_query *)

RawField(S) == {<<>>} \cup {<<v>> : v \in Opt(S)}
RawPages == 0..MaxPage
RawSizes == (0..MaxSize) \cup {101, 102}

InitParams ==
    /\ store = <<>>
    /\ nextId = 1
    /\ op = "init"
    /\ \E page \in RawField(RawPages), size \in RawField(RawSizes) :
          arg = [page |-> page, size |-> size]
    /\ ret = NoneVal
    /\ exc = "none"
    /\ committed = FALSE
    /\ proc = NoLocals

Validate ==
    /\ op = "init"
    /\ LET out == PageNumberPaginationQueryParams(arg.page, arg.size)
       IN  /\ op' = "validate"
           /\ ret' = out.ret
           /\ exc' = out.exc
    /\ UNCHANGED <<store, nextId, arg, committed, proc>>

PaginateQuery ==
    /\ op = "validate"
    /\ exc = "none"
    /\ LET out == paginate_query_of(get_filter_query(NoFilters), ret)
       IN  /\ op' = "paginate_query"
           /\ ret' = out.ret
           /\ exc' = out.exc
    /\ UNCHANGED <<store, nextId, arg, committed, proc>>

NextParams ==
    \/ Validate
    \/ PaginateQuery

ParamsSpec == InitParams /\ [][NextParams]_vars

----------------------------------------------------------------------------
(* safe_call (utils.py) and AsyncHandler (async_handler.py)                *)
(*                                                                         *)
(* A callable, coroutine or handler is given by what running it does:      *)
(* [exc |-> "none", ret |-> value] or [exc |-> the exception it raises].   *)

Exceptions == {"ValueError"}
(* raised with a class outside Exception, as asyncio.CancelledError is *)
BaseExceptions == {"CancelledError"}

ValueOf(v) == [kind |-> "Value", v |-> v]
Returns(v) == [exc |-> "none", ret |-> v]
Raises(e) == [exc |-> e, ret |-> NoneVal]

(* The on_error callback: absent, one that returns a value built from what *)
(* it is given, or one that raises itself.                                 *)
on_error_call(on_error, e, args) ==
    IF on_error = "returns"
    THEN Returns([kind |-> "Handled", e |-> e, args |-> args])
    ELSE Raises("OnErrorFailed")

sync_wrapper(on_error, fn, args) ==
    IF fn.exc = "none" THEN Returns(fn.ret)
    ELSE IF fn.exc \in Exceptions
         THEN IF on_error # "absent" THEN on_error_call(on_error, fn.exc, args)
              ELSE Returns(NoneVal)
         ELSE Raises(fn.exc)

async_wrapper_reraises(on_error, fn, args) ==
    IF fn.exc = "none" THEN Returns(fn.ret)
    ELSE IF fn.exc \in Exceptions /\ on_error # "absent"
         THEN on_error_call(on_error, fn.exc, args)
         ELSE Raises(fn.exc)

async_wrapper(on_error, fn, args) ==
    IF fn.exc = "none" THEN Returns(fn.ret)
    ELSE IF fn.exc \in Exceptions
         THEN IF on_error # "absent" THEN on_error_call(on_error, fn.exc, args)
              ELSE Returns(NoneVal)
         ELSE Raises(fn.exc)

(* Calling the function safe_call returns for fn: the wrapper is chosen by *)
(* inspect.iscoroutinefunction(fn).                                        *)
safe_call(kind, on_error, fn, args) ==
    IF kind = "async" THEN async_wrapper(on_error, fn, args)
    ELSE sync_wrapper(on_error, fn, args)

(* run_async: a new loop, run_until_complete inside try, loop.close() in   *)
(* finally, no except clause.                                              *)
run_async(coro) ==
    [exc |-> coro.exc,
     ret |-> IF coro.exc = "none" THEN coro.ret ELSE NoneVal,
     loop |-> "closed"]

(* _get_resource_from_generator: the first __anext__ runs the generator to *)
(* its yield, or the generator raises before it yields.                    *)
get_resource_from_generator(provider) ==
    IF provider = "yields"
    THEN [coro |-> Returns([kind |-> "Resource"]), gen |-> "suspended"]
    ELSE [coro |-> Raises("ConnectionError"), gen |-> "failed"]

Kinds == {"sync", "async"}
OnErrors == {"absent", "returns", "raises"}
Outcomes ==
    {Returns(ValueOf(v)) : v \in 1..2} \cup {Returns(NoneVal)}
        \cup {Raises(e) : e \in Exceptions \cup BaseExceptions}
ArgTuples == {<<>>, <<1>>}
Providers == {"yields", "raises"}

InitUtil ==
    /\ store = <<>>
    /\ nextId = 1
    /\ op = "init"
    /\ \E kind \in Kinds, on_error \in OnErrors, fn \in Outcomes,
          args \in ArgTuples, provider \in Providers :
          arg = [kind |-> kind, on_error |-> on_error, fn |-> fn, args |-> args,
                 provider |-> provider]
    /\ ret = NoneVal
    /\ exc = "none"
    /\ committed = FALSE
    /\ proc = [pc |-> "idle", gen |-> "none", loops |-> <<>>]

SafeCall ==
    /\ op = "init"
    /\ LET out == safe_call(arg.kind, arg.on_error, arg.fn, arg.args)
       IN  /\ op' = "safe_call"
           /\ ret' = out.ret
           /\ exc' = out.exc
    /\ UNCHANGED <<store, nextId, arg, committed, proc>>

RunAsync ==
    /\ op = "init"
    /\ LET out == run_async(arg.fn)
       IN  /\ op' = "run_async"
           /\ ret' = out.ret
           /\ exc' = out.exc
           /\ proc' = [proc EXCEPT !.loops = Append(@, out.loop)]
    /\ UNCHANGED <<store, nextId, arg, committed>>

(* wrapper of with_async_generator, line by line *)
WrapperProvide ==
    /\ op = "init"
    /\ op' = "with_async_generator"
    /\ proc' = [proc EXCEPT !.pc = "provided", !.gen = "created"]
    /\ UNCHANGED <<store, nextId, arg, ret, exc, committed>>

WrapperGetResource ==
    /\ op = "with_async_generator"
    /\ proc.pc = "provided"
    /\ LET got == get_resource_from_generator(arg.provider)
           out == run_async(got.coro)
       IN  /\ proc' = [pc |-> IF out.exc = "none" THEN "resource" ELSE "done",
                       gen |-> got.gen,
                       loops |-> Append(proc.loops, out.loop)]
           /\ exc' = out.exc
    /\ UNCHANGED <<store, nextId, op, arg, ret, committed>>

(* try: return run_async(handler(resource, ...)); finally: nothing *)
WrapperRunHandler ==
    /\ op = "with_async_generator"
    /\ proc.pc = "resource"
    /\ LET out == run_async(arg.fn)
       IN  /\ proc' = [proc EXCEPT !.pc = "done", !.loops = Append(@, out.loop)]
           /\ ret' = out.ret
           /\ exc' = out.exc
    /\ UNCHANGED <<store, nextId, op, arg, committed>>

NextUtil ==
    \/ SafeCall
    \/ RunAsync
    \/ WrapperProvide
    \/ WrapperGetResource
    \/ WrapperRunHandler

UtilSpec == InitUtil /\ [][NextUtil]_vars

----------------------------------------------------------------------------
(* Two sessions calling update on the same entity, each in two steps: the  *)
(* load (get_by_id) and everything from the attribute loop to the return.  *)

Sessions == {"A", "B"}
RaceKwargs == [name : Opt(Names), qty : Opt(Qtys)]

IdleSession ==
    [pc |-> "idle", kwargs |-> [name |-> {}, qty |-> {}], obj |-> NoneVal,
     exc |-> "none", ret |-> NoneVal]

InitUpdateRace ==
    /\ \E name \in Names, qty \in Qtys :
          store = <<[id |-> 1, name |-> name, qty |-> qty]>>
    /\ nextId = 2
    /\ op = "init"
    /\ arg = [id |-> 1]
    /\ ret = NoneVal
    /\ exc = "none"
    /\ committed = FALSE
    /\ proc = [sess |-> [s \in Sessions |-> IdleSession], order |-> <<>>]

UpdateLoad(s) ==
    /\ proc.sess[s].pc = "idle"
    /\ \E kwargs \in RaceKwargs :
          LET loaded == get_by_id(store, arg.id)
          IN  proc' = [sess |-> [proc.sess EXCEPT ![s] =
                                    [pc |-> IF loaded.exc = "none" THEN "loaded"
                                            ELSE "done",
                                     kwargs |-> kwargs,
                                     obj |-> loaded.ret,
                                     exc |-> loaded.exc,
                                     ret |-> NoneVal]],
                       order |-> Append(proc.order, <<s, "load">>)]
    /\ op' = "update"
    /\ UNCHANGED <<store, nextId, arg, ret, exc, committed>>

UpdateCommit(s) ==
    /\ proc.sess[s].pc = "loaded"
    /\ LET out == update_commit(store, proc.sess[s].obj, proc.sess[s].kwargs)
       IN  /\ store' = out.store
           /\ committed' = out.committed
           /\ proc' = [sess |-> [proc.sess EXCEPT ![s].pc = "done",
                                                  ![s].exc = out.exc,
                                                  ![s].ret = out.ret],
                       order |-> Append(proc.order, <<s, "commit">>)]
    /\ UNCHANGED <<nextId, op, arg, ret, exc>>

NextUpdateRace ==
    \/ \E s \in Sessions : UpdateLoad(s)
    \/ \E s \in Sessions : UpdateCommit(s)

UpdateRaceSpec == InitUpdateRace /\ [][NextUpdateRace]_vars

----------------------------------------------------------------------------
(* get_paginated in its two reads, the count and the page fetch, with      *)
(* another session creating and deleting entities.  Each read sees what is *)
(* committed when it runs; proc.wrote tells whether the other session      *)
(* committed between the two reads.                                        *)

RaceSizes == 1..(MaxRows + 1)

InitPageRace ==
    /\ store = <<>>
    /\ nextId = 1
    /\ op = "init"
    /\ arg = [none |-> TRUE]
    /\ ret = NoneVal
    /\ exc = "none"
    /\ committed = FALSE
    /\ proc = [pc |-> "idle", total_query_count |-> 0, wrote |-> FALSE]

(* total_query_count = await self.count_filter_query(filter_query) *)
ReadCount ==
    /\ proc.pc = "idle"
    /\ \E filters \in PageFilters, page \in Pages, size \in RaceSizes :
          /\ ValidParams(page, size)
          /\ arg' = [filters |-> filters, page |-> page, size |-> size]
          /\ proc' = [pc |-> "counted",
                      total_query_count |->
                          count_filter_query(store, get_filter_query(filters)),
                      wrote |-> FALSE]
    /\ op' = "get_paginated"
    /\ UNCHANGED <<store, nextId, ret, exc, committed>>

(* paginate_query, execute_filter_query, paginate_response *)
ReadFetch ==
    /\ proc.pc = "counted"
    /\ LET paginated_query ==
               paginate_query(get_filter_query(arg.filters), arg.page, arg.size)
           results == execute_filter_query(store, paginated_query)
           out == paginate_response(results, proc.total_query_count,
                                    arg.page, arg.size)
       IN  /\ ret' = out.ret
           /\ exc' = out.exc
    /\ proc' = [proc EXCEPT !.pc = "done"]
    /\ UNCHANGED <<store, nextId, op, arg, committed>>

WriterCreate ==
    /\ Len(store) < MaxRows
    /\ \E kwargs \in CreateKwargs :
          LET out == create(store, nextId, kwargs)
          IN  /\ store' = out.store
              /\ committed' = out.committed
              /\ proc' = [proc EXCEPT
                              !.wrote = @ \/ (proc.pc = "counted" /\ out.committed)]
    /\ nextId' = nextId + 1
    /\ UNCHANGED <<op, arg, ret, exc>>

WriterDelete ==
    /\ \E id \in Ids :
          LET out == delete(store, id)
          IN  /\ store' = out.store
              /\ committed' = out.committed
              /\ proc' = [proc EXCEPT
                              !.wrote = @ \/ (proc.pc = "counted" /\ out.committed)]
    /\ UNCHANGED <<nextId, op, arg, ret, exc>>

NextPageRace ==
    \/ ReadCount
    \/ ReadFetch
    \/ WriterCreate
    \/ WriterDelete

PageRaceSpec == InitPageRace /\ [][NextPageRace]_vars

----------------------------------------------------------------------------
(* Properties *)

Exists(db, id) == \E i \in 1..Len(db) : db[i].id = id
RowOf(db, id) == db[CHOOSE i \in 1..Len(db) : db[i].id = id]
Value(opt) == CHOOSE v \in opt : TRUE

(* results[lo : hi] of a Python sequence *)
PySlice(R, lo, hi) == [i \in 1..Max(0, Min(hi, Len(R)) - lo) |-> R[lo + i]]

(* ceil(n / d): the least k with k * d >= n *)
CeilDiv(n, d) == CHOOSE k \in 0..n : k * d >= n /\ \A j \in 0..n : j * d >= n => k <= j

Envelope(total_count, next_page, previous_page, results) ==
    [kind |-> "Page", total_count |-> total_count, next_page |-> next_page,
     previous_page |-> previous_page, results |-> results]

(* C1: executing the query returned by paginate_query yields exactly the   *)
(* slice R[(page-1)*size : (page-1)*size+size] of the filtered result set  *)
(* R: at most size rows, and none when (page-1)*size >= len(R).            *)
C1_PaginateQuerySlice ==
    op = "execute_paginated" =>
        LET R == FilterRows(store, arg.filters)
            lo == (arg.page - 1) * arg.size
        IN  /\ ret.rows = PySlice(R, lo, lo + arg.size)
            /\ Len(ret.rows) <= arg.size
            /\ (lo >= Len(R) => Len(ret.rows) = 0)

C1_Witness ==
    /\ op = "execute_paginated"
    /\ arg.page = 2
    /\ arg.filters.name = {"a"}
    /\ Len(ret.rows) > 0
    /\ Len(ret.rows) < arg.size

(* C2: get_paginated on a filter that matches zero rows returns the        *)
(* envelope {total_count 0, next_page none, previous_page none, results    *)
(* []} and does not raise.                                                 *)
C2_EmptyEnvelope ==
    (op = "get_paginated" /\ Len(FilterRows(store, arg.filters)) = 0) =>
        /\ exc = "none"
        /\ ret = Envelope(0, {}, {}, <<>>)

(* C3: create(fields) followed immediately by get_by_id of the returned id *)
(* returns an entity equal in all fields to the one create returned.       *)
C3_CreateThenGetById ==
    [][(op = "create" /\ op' = "get_by_id" /\ arg'.id = ret.row.id) =>
           (exc' = "none" /\ ret' = ret)]_vars

Overwrites(db, id, kwargs, f) ==
    /\ kwargs[f] # {}
    /\ Truthy(f, Value(kwargs[f]))
    /\ Value(kwargs[f]) # RowOf(db, id)[f]

(* C4: update(id, fields) on an existing entity overwrites every           *)
(* recognised attribute whose new value is truthy and differs from the     *)
(* current one, commits, and returns the refreshed entity.                 *)
C4_UpdateOverwrites ==
    [][(/\ op' = "update"
        /\ Exists(store, arg'.id)
        /\ \E f \in {"name", "qty"} : Overwrites(store, arg'.id, arg'.kwargs, f)) =>
           /\ exc' = "none"
           /\ committed'
           /\ Exists(store', arg'.id)
           /\ \A f \in {"name", "qty"} :
                  Overwrites(store, arg'.id, arg'.kwargs, f)
                  => RowOf(store', arg'.id)[f] = Value(arg'.kwargs[f])
           /\ ret' = EntityVal(RowOf(store', arg'.id))]_vars

(* C5: after delete(id) on an existing entity returns, the entity is no    *)
(* longer in the store and a following get_by_id(id) raises                *)
(* ObjDoesNotExist.                                                        *)
C5_DeleteRemoves ==
    [][/\ (op' = "delete" /\ Exists(store, arg'.id)) =>
              (exc' = "none" /\ ~Exists(store', arg'.id))
       /\ (op = "delete" /\ exc = "none" /\ op' = "get_by_id" /\ arg'.id = arg.id) =>
              exc' = "ObjDoesNotExist"]_vars

(* C6: every get_paginated call answers with a response whose              *)
(* previous_page is none exactly when page is 1 and page-1 otherwise, also *)
(* for a page past the end of the data.                                    *)
C6_PreviousPage ==
    op = "get_paginated" =>
        /\ exc = "none"
        /\ ret.previous_page = IF arg.page = 1 THEN {} ELSE {arg.page - 1}

(* C7: for a non-empty result batch the response follows the total-pages   *)
(* policy: next_page = page+1 if page < ceil(total_count / size) and none  *)
(* otherwise, previous_page = page-1 if page > 1, total_count is the count *)
(* passed in; 25 entities, page 2, size 10 give 25 / 1 / 3 and 5 entities, *)
(* page 1, size 10 give 5 / none / none.                                   *)
C7_TotalPagesPolicy ==
    (/\ op = "get_paginated"
     /\ (arg.page - 1) * arg.size < Len(FilterRows(store, arg.filters))) =>
        LET total == Len(FilterRows(store, arg.filters))
        IN  /\ exc = "none"
            /\ ret.total_count = total
            /\ ret.next_page = IF arg.page < CeilDiv(total, arg.size)
                               THEN {arg.page + 1} ELSE {}
            /\ ret.previous_page = IF arg.page > 1 THEN {arg.page - 1} ELSE {}
            /\ (total = 25 /\ arg.page = 2 /\ arg.size = 10) =>
                   (/\ ret.total_count = 25
                    /\ ret.previous_page = {1}
                    /\ ret.next_page = {3})
            /\ (total = 5 /\ arg.page = 1 /\ arg.size = 10) =>
                   (/\ ret.total_count = 5
                    /\ ret.previous_page = {}
                    /\ ret.next_page = {}
                    /\ Len(ret.results) = 5)

C7_Witness ==
    /\ op = "get_paginated"
    /\ Len(store) = 25
    /\ arg.filters = NoFilters
    /\ arg.page = 2
    /\ arg.size = 10
    /\ exc = "none"
    /\ ret.next_page = {3}

(* C8 as stated: for every valid page and size, get_paginated with empty   *)
(* filters over a store with total_count > size gives next_page = page+1   *)
(* and exactly size results.                                               *)
C8_EveryPageHasNext ==
    (op = "get_paginated" /\ arg.filters = NoFilters /\ Len(store) > arg.size) =>
        /\ exc = "none"
        /\ ret.next_page = {arg.page + 1}
        /\ Len(ret.results) = arg.size

(* C8 amended: get_paginated with empty filters gives next_page = page+1   *)
(* and exactly size results whenever rows remain after the requested page, *)
(* page * size < total_count (for page 1: total_count > size).             *)
C8_NextPageWhenRowsRemain ==
    (op = "get_paginated" /\ arg.filters = NoFilters
        /\ arg.page * arg.size < Len(store)) =>
        /\ exc = "none"
        /\ ret.total_count = Len(store)
        /\ ret.next_page = {arg.page + 1}
        /\ Len(ret.results) = arg.size

C8_Witness ==
    /\ op = "get_paginated"
    /\ arg.filters = NoFilters
    /\ arg.page = 1
    /\ arg.size = 3
    /\ Len(store) = 4
    /\ exc = "none"
    /\ ret.next_page = {2}

(* C9: update(id, fields) on an existing entity leaves an attribute        *)
(* unchanged whenever the new value supplied for it is falsy.              *)
C9_FalsyIgnored ==
    [][(op' = "update" /\ Exists(store, arg'.id)) =>
           /\ Exists(store', arg'.id)
           /\ \A f \in {"name", "qty"} :
                  (arg'.kwargs[f] # {} /\ ~Truthy(f, Value(arg'.kwargs[f])))
                  => RowOf(store', arg'.id)[f] = RowOf(store, arg'.id)[f]]_vars

C9_Witness ==
    /\ op = "update"
    /\ exc = "none"
    /\ arg.kwargs.name = {""}
    /\ arg.kwargs.qty = {0}
    /\ Exists(store, arg.id)
    /\ RowOf(store, arg.id).name = "a"
    /\ RowOf(store, arg.id).qty = 1

(* C10: get_by and get_by_id raise ObjDoesNotExist when zero entities      *)
(* match, and update and delete on an id with no entity raise it too,      *)
(* without committing and without changing any stored entity.              *)
C10_NotFound ==
    [][/\ (op' = "get_by" /\ Len(FilterRows(store, arg'.filters)) = 0) =>
              (exc' = "ObjDoesNotExist" /\ ~committed' /\ store' = store)
       /\ (op' \in {"get_by_id", "update", "delete"} /\ ~Exists(store, arg'.id)) =>
              (exc' = "ObjDoesNotExist" /\ ~committed' /\ store' = store)]_vars

C10_Witness ==
    /\ op \in {"update", "delete"}
    /\ exc = "ObjDoesNotExist"
    /\ ~committed
    /\ Len(store) > 0
    /\ ~Exists(store, arg.id)

(* C12: the total_count get_paginated passes to the paginator is the       *)
(* number of entities matching the filters, counted before offset and      *)
(* limit: it does not depend on page and size and is not the length of the *)
(* returned page.                                                          *)
C12_CountBeforeSlicing ==
    op = "get_paginated" =>
        /\ proc.total_query_count = Len(FilterRows(store, arg.filters))
        /\ exc = "none" => ret.total_count = proc.total_query_count

C12_Witness ==
    /\ op = "get_paginated"
    /\ arg.filters.name = {"a"}
    /\ arg.page = 2
    /\ exc = "none"
    /\ proc.total_query_count = 7
    /\ Len(ret.results) = 3
    /\ Len(store) = 13

(* C13: filter_by(criteria) returns exactly the entities matching the      *)
(* criteria, as entities; filter_by() with no criteria returns what        *)
(* get_all() returns, in the same shape.                                   *)
C13_FilterByEntities ==
    op = "filter_by" =>
        /\ exc = "none"
        /\ ret.rows = FilterRows(store, arg.filters)
        /\ arg.filters = NoFilters => ret = get_all(store).ret

(* C19: get_by never returns one of several matches: with more than one    *)
(* match it fails with a store error that is not ObjDoesNotExist, and it   *)
(* returns an entity only when exactly one matches, namely that one.       *)
C19_NoArbitraryMatch ==
    op = "get_by" =>
        LET matched == FilterRows(store, arg.filters)
        IN  /\ Len(matched) > 1 =>
                  (exc \notin {"none", "ObjDoesNotExist"} /\ ret = NoneVal)
            /\ exc = "none" => (Len(matched) = 1 /\ ret = EntityVal(matched[1]))
            /\ Len(matched) = 1 => exc = "none"

C19_Witness ==
    /\ op = "get_by"
    /\ Len(FilterRows(store, arg.filters)) = 2
    /\ exc = "MultipleResultsFound"

IntegerIn(opt, lo, hi) == opt # {} /\ \A n \in opt : n >= lo /\ n <= hi
IntegerFrom(opt, lo) == opt # {} /\ \A n \in opt : n >= lo

(* C11: every instance that passes validation has an integer page >= 1 and *)
(* an integer size in 1..101 (defaults 1 and 10); every other value is     *)
(* rejected with a validation error, so paginate_query never meets one.    *)
C11_ValidatedParams ==
    /\ (op = "validate" /\ exc = "none") =>
           /\ IntegerFrom(ret.page, 1)
           /\ IntegerIn(ret.size, 1, 101)
           /\ arg.page = <<>> => ret.page = {1}
           /\ arg.size = <<>> => ret.size = {10}
    /\ (op = "validate" /\ arg.page # <<>> /\ ~IntegerFrom(arg.page[1], 1)) =>
           exc = "ValidationError"
    /\ (op = "validate" /\ arg.size # <<>> /\ ~IntegerIn(arg.size[1], 1, 101)) =>
           exc = "ValidationError"
    /\ op = "paginate_query" => exc = "none"

(* C14: a function wrapped by safe_call, sync or async, never propagates   *)
(* an Exception raised by the wrapped function: the call returns the       *)
(* function's result on success, the result of on_error(exception, args,   *)
(* kwargs) when on_error is given, and None otherwise.                     *)
C14_SafeCallSwallows ==
    op = "safe_call" =>
        /\ arg.fn.exc = "none" => (exc = "none" /\ ret = arg.fn.ret)
        /\ arg.fn.exc \in Exceptions =>
               /\ exc # arg.fn.exc
               /\ arg.on_error = "absent" => (exc = "none" /\ ret = NoneVal)
               /\ arg.on_error = "returns" =>
                      /\ exc = "none"
                      /\ ret = [kind |-> "Handled", e |-> arg.fn.exc, args |-> arg.args]

C14_Witness ==
    /\ op = "safe_call"
    /\ arg.kind = "async"
    /\ arg.fn.exc = "ValueError"
    /\ arg.on_error = "absent"
    /\ exc = "none"
    /\ ret = NoneVal

(* C15: run_async returns the coroutine's result when it completes and     *)
(* returns None when the coroutine raises; either way the loop it created  *)
(* is closed before it returns.                                            *)
C15_RunAsyncReturnsNone ==
    op = "run_async" =>
        /\ proc.loops = <<"closed">>
        /\ arg.fn.exc = "none" => (exc = "none" /\ ret = arg.fn.ret)
        /\ arg.fn.exc # "none" => (exc = "none" /\ ret = NoneVal)

(* C17: when the wrapper made by with_async_generator returns or raises,   *)
(* the resource's generator has been finalized (the code after its yield   *)
(* has run), whether the handler returned or raised.                       *)
C17_GeneratorFinalized ==
    (op = "with_async_generator" /\ proc.pc = "done" /\ proc.gen # "failed") =>
        proc.gen = "finalized"

(* C16: update takes no lock and checks no version, so when two update     *)
(* calls on the same entity both load before either commits, both return   *)
(* without error and a field both wrote ends with the value of the later   *)
(* commit only.                                                            *)
C16_LostUpdate ==
    \A f \in {"name", "qty"} :
        (/\ Len(proc.order) = 4
         /\ proc.order[1][2] = "load"
         /\ proc.order[2][2] = "load"
         /\ \A s \in Sessions :
                /\ proc.sess[s].kwargs[f] # {}
                /\ Truthy(f, Value(proc.sess[s].kwargs[f])))
        => /\ \A s \in Sessions : proc.sess[s].pc = "done" /\ proc.sess[s].exc = "none"
           /\ RowOf(store, arg.id)[f] = Value(proc.sess[proc.order[4][1]].kwargs[f])

Consistent(response, page, size) ==
    Len(response.results) <= Max(0, response.total_count - (page - 1) * size)

====
